---- MODULE Spec2Model ----
(***************************************************************************)
(* Model of package api_util (src/api_util/map.go): the value matcher      *)
(* InterfaceEquals, the map merge/copy operations MapCombine / MapCopy /   *)
(* ArrayCopy, and the walkers IterateMapsInInterface /                     *)
(* IterateFieldsInInterface.                                               *)
(*                                                                         *)
(* Go values held in an interface{} are modelled as records tagged by k:   *)
(*   [k |-> "nil"]                       the untyped nil interface         *)
(*   [k |-> "bool", b |-> TRUE]          bool                              *)
(*   [k |-> "int", n |-> 1]              int                               *)
(*   [k |-> "float", n |-> 1]            float64 (whole values only)       *)
(*   [k |-> "string", s |-> "x"]         string                            *)
(*   [k |-> "jnum", s |-> "5"]           json.Number (reflect kind String) *)
(*   [k |-> "map", nil |-> b, m |-> f]   map[string]interface{}; nil = b   *)
(*   [k |-> "slice", nil |-> b, a |-> s] []interface{}; nil = b            *)
(* A nil map / nil slice is a typed nil: it is not the nil interface.      *)
(***************************************************************************)
EXTENDS Integers, Sequences, FiniteSets, TLC

VARIABLES
    wIn,      \* walker: the value passed as `in`
    wMode,    \* walker: "maps" (IterateMapsInInterface) or "fields" (IterateFieldsInInterface)
    wStack,   \* walker: the call stack, innermost call last
    wRet,     \* walker: value returned by the call that just returned (-1 none, 0 nil, n>0 error n)
    wLog,     \* walker: the calls made to the caller's callback, in order
    wPc,      \* walker: "idle", "run" or "done"
    mCrit,    \* matcher: the value passed as `criteria`
    mExist,   \* matcher: the value passed as `existing`
    mOut,     \* matcher: the verdict returned
    mPc,      \* matcher: "idle", "call" or "done"
    tEnv,     \* what time.Parse depends on besides its arguments (see TimeParse)
    heap,     \* merge/copy: the maps and backing arrays allocated so far, by address
    hOp,      \* merge/copy: the function called, "copy" (MapCopy), "combine" (MapCombine)
              \*             or "replace" (MapReplace)
    hDst,     \* merge/copy: the value passed as `dst` (MapCombine)
    hSrc,     \* merge/copy: the value passed as `src`
    hRes,     \* merge/copy: the value returned
    hPc,      \* merge/copy: "idle", "call" or "done"
    hDst0,    \* merge/copy: the tree dst held when the function was called
    hSrc0,    \* merge/copy: the tree src held when the function was called
    hRes0,    \* merge/copy: the tree the result held when the function returned
    hVia      \* merge/copy: whose holder has written since, "none", "res" or "src"

wVars == <<wIn, wMode, wStack, wRet, wLog, wPc>>
mVars == <<mCrit, mExist, mOut, mPc, tEnv>>
hVars == <<heap, hOp, hDst, hSrc, hRes, hPc, hDst0, hSrc0, hRes0, hVia>>
vars == <<wVars, mVars, hVars>>

(***************************************************************************)
(* Bounds of the model.                                                    *)
(***************************************************************************)
MaxNodes == 4        \* nodes (scalars and containers) in a walked value tree
MaxLen == 2          \* elements in one slice of a generated tree
MaxMatchNodes == 3   \* nodes in a criteria tree and in an existing tree
MaxSrcNodes == 3     \* nodes in the src tree of MapCopy and MapCombine
MaxDstNodes == 2     \* nodes in the dst tree of MapCombine
MaxReplaceNodes == 3 \* nodes in the dst tree and in the src tree of MapReplace

Keys == {"a", "b"}
KeyOrder == <<"a", "b">>     \* the byte order of the keys (encoding/json sorts map keys)

(***************************************************************************)
(* Values.                                                                 *)
(***************************************************************************)
Nil == [k |-> "nil"]
IntV(n) == [k |-> "int", n |-> n]
FloatV(n) == [k |-> "float", n |-> n]
StrV(s) == [k |-> "string", s |-> s]
JNumV(s) == [k |-> "jnum", s |-> s]
BoolV(b) == [k |-> "bool", b |-> b]
MapV(f) == [k |-> "map", nil |-> FALSE, m |-> f]
SliceV(s) == [k |-> "slice", nil |-> FALSE, a |-> s]
NilMap == [k |-> "map", nil |-> TRUE, m |-> <<>>]
NilSlice == [k |-> "slice", nil |-> TRUE, a |-> <<>>]
EmptyMap == MapV(<<>>)
EmptySlice == SliceV(<<>>)

IsMap(v) == v.k = "map"
IsSlice(v) == v.k = "slice"

\* The keys of ks in KeyOrder order.
KeySeq(ks) == SelectSeq(KeyOrder, LAMBDA x : x \in ks)

\* The map with key set ks whose i-th key (in KeyOrder order) holds f[i].
MkMap(ks, f) ==
    MapV([x \in ks |-> f[CHOOSE i \in 1..Len(KeySeq(ks)) : KeySeq(ks)[i] = x]])

(***************************************************************************)
(* The value trees of n nodes a decoder or MapCopy can produce.            *)
(***************************************************************************)
WalkLeaves == {Nil, IntV(1), EmptyMap, NilMap, EmptySlice}

RECURSIVE TreesOfSize(_, _), Forests(_, _, _)
TreesOfSize(leaves, n) ==
    IF n = 1 THEN leaves
    ELSE UNION { { MkMap(ks, f) : f \in Forests(leaves, n - 1, Cardinality(ks)) } :
                 ks \in (SUBSET Keys) \ {{}} }
         \cup UNION { { SliceV(f) : f \in Forests(leaves, n - 1, w) } : w \in 1..MaxLen }

\* The sequences of w trees with n nodes in all.
Forests(leaves, n, w) ==
    IF w = 0 THEN (IF n = 0 THEN {<<>>} ELSE {})
    ELSE UNION { { <<t>> \o f : t \in TreesOfSize(leaves, i),
                                f \in Forests(leaves, n - i, w - 1) } :
                 i \in 1..(n - (w - 1)) }

TreesUpTo(leaves, n) == UNION { TreesOfSize(leaves, i) : i \in 1..n }

(***************************************************************************)
(* Paths into a value: a step is a map key or a slice index.               *)
(***************************************************************************)
KeyStep(x) == [key |-> x, idx |-> 0]
IdxStep(i) == [key |-> "", idx |-> i]

\* The steps leading to the entries of a container, none for anything else.
ChildSteps(v) ==
    IF IsMap(v) THEN { KeyStep(x) : x \in DOMAIN v.m }
    ELSE IF IsSlice(v) THEN { IdxStep(i) : i \in 1..Len(v.a) }
    ELSE {}

Child(v, st) == IF IsMap(v) THEN v.m[st.key] ELSE v.a[st.idx]

RECURSIVE At(_, _)
At(v, p) == IF p = <<>> THEN v ELSE At(Child(v, Head(p)), Tail(p))

(***************************************************************************)
(* The parts of the state a specification does not use.                    *)
(***************************************************************************)
WalkIdle ==
    /\ wIn = Nil /\ wMode = "maps" /\ wStack = <<>> /\ wRet = -1 /\ wLog = <<>>
    /\ wPc = "idle"

MatchIdle ==
    /\ mCrit = Nil /\ mExist = Nil /\ mOut = FALSE /\ mPc = "idle"
    /\ tEnv = [localOffset |-> 0, zoneCache |-> FALSE]

HeapIdle ==
    /\ heap = <<>> /\ hOp = "copy" /\ hDst = Nil /\ hSrc = Nil /\ hRes = Nil
    /\ hPc = "idle" /\ hDst0 = Nil /\ hSrc0 = Nil /\ hRes0 = Nil /\ hVia = "none"

(***************************************************************************)
(* IterateMapsInInterface / IterateFieldsInInterface.                      *)
(*                                                                         *)
(* The recursion of IterateMapsInInterface is the call stack wStack: one   *)
(* frame per active call, with the path of the value it was called on      *)
(* (the paths exist only in the model, to tell the nodes apart), its       *)
(* position (pos) and the entries its range loop has still to take (todo). *)
(* The caller's callback may fail on any call; its error is numbered by    *)
(* the call that returned it.                                              *)
(***************************************************************************)
Frame(fn, path, pos, todo) == [fn |-> fn, path |-> path, pos |-> pos, todo |-> todo]

Top == wStack[Len(wStack)]
Pop == SubSeq(wStack, 1, Len(wStack) - 1)
SetTop(f) == [wStack EXCEPT ![Len(wStack)] = f]

\* `inMap, _ := in.(map[string]interface{}); inMap != nil`
IsMapNodeSkipEmpty(v) == IsMap(v) /\ ~v.nil /\ DOMAIN v.m # {}
IsMapNode(v) == IsMap(v) /\ ~v.nil

\* `inArray, _ := in.([]interface{}); inArray != nil`
IsArrayNode(v) == IsSlice(v) /\ ~v.nil

\* The entries a range loop may take next: any remaining entry of a map (Go leaves
\* the order of a map's range unspecified), the next index of a slice.
RangeNext(v, todo) ==
    IF IsMap(v) THEN todo
    ELSE { st \in todo : \A o \in todo : st.idx <= o.idx }

\* `if err != nil { return err }` after a call made by the frame f.
ReturnsErrMapsOnly(f, e) == e # 0 /\ IsMap(At(wIn, f.path))
ReturnsErr(f, e) == e # 0

\* Line 383-384 with the caller's MapIterFunc: the callback is called on a map.
WalkVisit ==
    /\ wPc = "run" /\ wRet = -1 /\ wStack # <<>>
    /\ Top.fn = "Iterate" /\ Top.pos = "entry"
    /\ wMode = "maps"
    /\ IsMapNode(At(wIn, Top.path))
    /\ \E fails \in BOOLEAN :
         /\ wLog' = Append(wLog, [path |-> Top.path, key |-> "", ok |-> ~fails])
         /\ wRet' = IF fails THEN Len(wLog) + 1 ELSE 0
    /\ wStack' = SetTop([Top EXCEPT !.pos = "cb"])
    /\ UNCHANGED <<wIn, wMode, wPc>>
    /\ UNCHANGED <<mVars, hVars>>

\* Line 383-384 under IterateFieldsInInterface: the callback is mapCallback (line 412).
WalkCallMapCallback ==
    /\ wPc = "run" /\ wRet = -1 /\ wStack # <<>>
    /\ Top.fn = "Iterate" /\ Top.pos = "entry"
    /\ wMode = "fields"
    /\ IsMapNode(At(wIn, Top.path))
    /\ wStack' = Append(SetTop([Top EXCEPT !.pos = "cb"]),
                        Frame("mapCallback", Top.path, "loop", ChildSteps(At(wIn, Top.path))))
    /\ UNCHANGED <<wIn, wMode, wRet, wLog, wPc>>
    /\ UNCHANGED <<mVars, hVars>>

\* Lines 396-397: a non-nil slice starts its range loop.
WalkEnterArray ==
    /\ wPc = "run" /\ wRet = -1 /\ wStack # <<>>
    /\ Top.fn = "Iterate" /\ Top.pos = "entry"
    /\ ~IsMapNode(At(wIn, Top.path))
    /\ IsArrayNode(At(wIn, Top.path))
    /\ wStack' = SetTop([Top EXCEPT !.pos = "loop", !.todo = ChildSteps(At(wIn, Top.path))])
    /\ UNCHANGED <<wIn, wMode, wRet, wLog, wPc>>
    /\ UNCHANGED <<mVars, hVars>>

\* Line 405: anything else (a scalar, nil, a nil map, a nil slice) returns nil.
WalkEnterOther ==
    /\ wPc = "run" /\ wRet = -1 /\ wStack # <<>>
    /\ Top.fn = "Iterate" /\ Top.pos = "entry"
    /\ ~IsMapNode(At(wIn, Top.path))
    /\ ~IsArrayNode(At(wIn, Top.path))
    /\ wStack' = Pop
    /\ wRet' = 0
    /\ UNCHANGED <<wIn, wMode, wLog, wPc>>
    /\ UNCHANGED <<mVars, hVars>>

\* Lines 388-389, 397-398 and 394, 403: the range loop calls itself on the next
\* entry, or returns nil when none is left.
WalkLoop ==
    /\ wPc = "run" /\ wRet = -1 /\ wStack # <<>>
    /\ Top.fn = "Iterate" /\ Top.pos = "loop"
    /\ IF Top.todo = {}
       THEN /\ wStack' = Pop
            /\ wRet' = 0
       ELSE /\ \E st \in RangeNext(At(wIn, Top.path), Top.todo) :
                 wStack' = Append(SetTop([Top EXCEPT !.todo = @ \ {st}]),
                                  Frame("Iterate", Append(Top.path, st), "entry", {}))
            /\ wRet' = wRet
    /\ UNCHANGED <<wIn, wMode, wLog, wPc>>
    /\ UNCHANGED <<mVars, hVars>>

\* Lines 385-387, 390-392, 399-401: the frame that made a call looks at its result.
WalkCheckErr ==
    /\ wPc = "run" /\ wRet # -1 /\ wStack # <<>>
    /\ Top.fn = "Iterate"
    /\ IF ReturnsErr(Top, wRet)
       THEN /\ wStack' = Pop
            /\ wRet' = wRet
       ELSE /\ wStack' = SetTop([Top EXCEPT !.pos = "loop",
                                            !.todo = IF Top.pos = "cb"
                                                     THEN ChildSteps(At(wIn, Top.path))
                                                     ELSE @])
            /\ wRet' = -1
    /\ UNCHANGED <<wIn, wMode, wLog, wPc>>
    /\ UNCHANGED <<mVars, hVars>>

\* Lines 413-419: mapCallback calls the caller's FieldIterFunc on the next entry
\* of the map, returns its error if it fails, and returns nil when none is left.
WalkField ==
    /\ wPc = "run" /\ wRet = -1 /\ wStack # <<>>
    /\ Top.fn = "mapCallback"
    /\ IF Top.todo = {}
       THEN /\ wStack' = Pop
            /\ wRet' = 0
            /\ wLog' = wLog
       ELSE \E st \in RangeNext(At(wIn, Top.path), Top.todo), fails \in BOOLEAN :
              /\ wLog' = Append(wLog, [path |-> Top.path, key |-> st.key, ok |-> ~fails])
              /\ IF ReturnsErr(Top, IF fails THEN Len(wLog) + 1 ELSE 0)
                 THEN /\ wStack' = Pop
                      /\ wRet' = Len(wLog) + 1
                 ELSE /\ wStack' = SetTop([Top EXCEPT !.todo = @ \ {st}])
                      /\ wRet' = -1
    /\ UNCHANGED <<wIn, wMode, wPc>>
    /\ UNCHANGED <<mVars, hVars>>

\* The outermost call has returned wRet to the caller (line 422 returns it as is).
WalkDone ==
    /\ wPc = "run" /\ wRet # -1 /\ wStack = <<>>
    /\ wPc' = "done"
    /\ UNCHANGED <<wIn, wMode, wStack, wRet, wLog>>
    /\ UNCHANGED <<mVars, hVars>>

WalkNext ==
    \/ WalkVisit
    \/ WalkCallMapCallback
    \/ WalkEnterArray
    \/ WalkEnterOther
    \/ WalkLoop
    \/ WalkCheckErr
    \/ WalkField
    \/ WalkDone

WalkInit ==
    /\ wIn \in TreesUpTo(WalkLeaves, MaxNodes)
    /\ wMode \in {"maps", "fields"}
    /\ wStack = <<Frame("Iterate", <<>>, "entry", {})>>
    /\ wRet = -1
    /\ wLog = <<>>
    /\ wPc = "run"
    /\ MatchIdle
    /\ HeapIdle

SpecWalk == WalkInit /\ [][WalkNext]_vars

(***************************************************************************)
(* Properties of the walkers.                                              *)
(*                                                                         *)
(* An Object node of the value tree is a map that is not nil: a nil map is *)
(* what MapCopy returns for an empty map, the absent value.                *)
(***************************************************************************)
RECURSIVE ObjectPathsFrom(_, _)
ObjectPathsFrom(v, p) ==
    (IF v.k = "map" /\ ~v.nil THEN {p} ELSE {})
    \cup UNION { ObjectPathsFrom(Child(v, st), Append(p, st)) : st \in ChildSteps(v) }

ObjectPaths(v) == ObjectPathsFrom(v, <<>>)

Prefix(p, n) == SubSeq(p, 1, n)
IsProperPrefix(p, q) == Len(p) < Len(q) /\ Prefix(q, Len(p)) = p

\* Nesting depth of the node at path p: counting every container on the way ...
PathDepth(p) == Len(p)
\* ... or counting only the Objects on the way (Sequences transparent).
ObjectDepth(p) == Cardinality({ n \in 0..(Len(p) - 1) : IsMap(At(wIn, Prefix(p, n))) })

LogIdx == 1..Len(wLog)
AllVisitsOk == \A i \in LogIdx : wLog[i].ok

LevelOrderPath ==
    \A i, j \in LogIdx : i < j => PathDepth(wLog[i].path) # PathDepth(wLog[j].path) + 1
LevelOrderObject ==
    \A i, j \in LogIdx : i < j => ObjectDepth(wLog[i].path) # ObjectDepth(wLog[j].path) + 1

\* C1: IterateMapsInInterface calls the callback on the Object nodes in breadth-first
\* (level) order: the root first, and no Object at depth d+1 is visited before an
\* Object at depth d, whichever of the two ways the depth is counted.
C1_WalkIsLevelOrder ==
    wMode = "maps" =>
        /\ (wLog # <<>> /\ IsMap(wIn)) => wLog[1].path = <<>>
        /\ LevelOrderPath \/ LevelOrderObject

\* C2: in both walkers, once a callback call has failed no further callback call is
\* made (a failed call is the last call of the log), the walk returns exactly that
\* call's error, and it returns nil when no call failed.
C2_WalkStopsAtFirstFailure ==
    /\ \A i \in LogIdx : i < Len(wLog) => wLog[i].ok
    /\ wPc = "done" => wRet = (IF AllVisitsOk THEN 0 ELSE Len(wLog))

\* C2 witness: a fields walk ended with the error of its second or later call while
\* an Object with entries had not been visited at all.
C2_Witness ==
    /\ wPc = "done" /\ wMode = "fields"
    /\ Len(wLog) >= 2 /\ wRet = Len(wLog)
    /\ \E p \in ObjectPaths(wIn) :
         /\ DOMAIN At(wIn, p).m # {}
         /\ \A i \in LogIdx : wLog[i].path # p

\* C3: with a callback that never fails, IterateMapsInInterface calls it exactly once
\* on every Object node reachable through map values and slice elements (the root and
\* the empty Objects included), on nothing else, and on an Object before any Object
\* nested inside it.
C3_WalkVisitsEachObjectOnce ==
    (wMode = "maps" /\ wPc = "done" /\ AllVisitsOk) =>
        /\ wRet = 0
        /\ \A p \in ObjectPaths(wIn) : Cardinality({ i \in LogIdx : wLog[i].path = p }) = 1
        /\ \A i \in LogIdx : wLog[i].path \in ObjectPaths(wIn)
        /\ \A i, j \in LogIdx : IsProperPrefix(wLog[i].path, wLog[j].path) => i < j

\* C3 witness: a finished walk without failure over a root Object that holds an
\* empty Object and an Object inside a Sequence, all of them visited.
C3_Witness ==
    /\ wMode = "maps" /\ wPc = "done" /\ AllVisitsOk
    /\ IsMap(wIn) /\ Len(wLog) >= 3
    /\ \E i \in LogIdx : At(wIn, wLog[i].path) = EmptyMap
    /\ \E i \in LogIdx : Len(wLog[i].path) = 2 /\ IsSlice(At(wIn, Prefix(wLog[i].path, 1)))

(***************************************************************************)
(* Strings.                                                                *)
(***************************************************************************)
Ch(s, i) == SubSeq(s, i, i)

\* strings.Contains
Contains(s, sub) ==
    \E i \in 1..(Len(s) - Len(sub) + 1) : SubSeq(s, i, i + Len(sub) - 1) = sub

DigitChars == "0123456789"
IsDigit(c) == \E i \in 1..10 : Ch(DigitChars, i) = c
DigitVal(c) == (CHOOSE i \in 1..10 : Ch(DigitChars, i) = c) - 1
AllDigits(s, from, to) == \A i \in from..to : IsDigit(Ch(s, i))
Num2(s, i) == DigitVal(Ch(s, i)) * 10 + DigitVal(Ch(s, i + 1))
Num4(s, i) == Num2(s, i) * 100 + Num2(s, i + 2)

(***************************************************************************)
(* time.Parse(time.RFC3339, s), layout "2006-01-02T15:04:05Z07:00", for    *)
(* strings without fractional seconds.  A time.Time is modelled by the     *)
(* fields Go's == on the struct compares: the instant (day number and      *)
(* second of the day, in UTC) and the *Location pointer.  The pointer is   *)
(* "UTC" for a "Z" zone, "Local" when the written offset is the local      *)
(* zone's, and otherwise the *Location that FixedZone returns: one per     *)
(* whole-hour offset where the runtime caches them (tEnv.zoneCache), a     *)
(* new one for every call (numbered by `call`) where it does not.          *)
(***************************************************************************)
IsLeap(y) == (y % 4 = 0 /\ y % 100 # 0) \/ y % 400 = 0
DaysIn(y, m) ==
    IF m = 2 THEN (IF IsLeap(y) THEN 29 ELSE 28)
    ELSE IF m \in {4, 6, 9, 11} THEN 30 ELSE 31

\* Days from 0000-03-01 to y-m-d in the proleptic Gregorian calendar.
DayNumber(y, m, d) ==
    LET yy == IF m <= 2 THEN y - 1 ELSE y
        mm == IF m <= 2 THEN m + 9 ELSE m - 3
    IN  365 * yy + (yy \div 4) - (yy \div 100) + (yy \div 400) + ((153 * mm + 2) \div 5) + d - 1

ZoneOk(s) ==
    \/ Len(s) = 20 /\ Ch(s, 20) = "Z"
    \/ /\ Len(s) = 25
       /\ Ch(s, 20) \in {"+", "-"}
       /\ AllDigits(s, 21, 22) /\ Ch(s, 23) = ":" /\ AllDigits(s, 24, 25)
       /\ Num2(s, 21) <= 23 /\ Num2(s, 24) <= 59

\* err == nil
ParsesRFC3339(s) ==
    /\ Len(s) \in {20, 25}
    /\ AllDigits(s, 1, 4) /\ Ch(s, 5) = "-" /\ AllDigits(s, 6, 7) /\ Ch(s, 8) = "-"
    /\ AllDigits(s, 9, 10) /\ Ch(s, 11) = "T"
    /\ AllDigits(s, 12, 13) /\ Ch(s, 14) = ":" /\ AllDigits(s, 15, 16) /\ Ch(s, 17) = ":"
    /\ AllDigits(s, 18, 19)
    /\ Num2(s, 6) \in 1..12
    /\ Num2(s, 9) \in 1..DaysIn(Num4(s, 1), Num2(s, 6))
    /\ Num2(s, 12) <= 23 /\ Num2(s, 15) <= 59 /\ Num2(s, 18) <= 59
    /\ ZoneOk(s)

ZoneOffset(s) ==
    IF Len(s) = 20 THEN 0
    ELSE (IF Ch(s, 20) = "-" THEN -1 ELSE 1) * (Num2(s, 21) * 3600 + Num2(s, 24) * 60)

ZoneLocation(s, call) ==
    IF Len(s) = 20 THEN [name |-> "UTC", offset |-> 0, alloc |-> 0]
    ELSE IF ZoneOffset(s) = tEnv.localOffset THEN [name |-> "Local", offset |-> 0, alloc |-> 0]
    ELSE IF tEnv.zoneCache /\ ZoneOffset(s) % 3600 = 0
              /\ ZoneOffset(s) \in (-12 * 3600)..(14 * 3600)
         THEN [name |-> "fixed", offset |-> ZoneOffset(s), alloc |-> 0]
         ELSE [name |-> "fixed", offset |-> ZoneOffset(s), alloc |-> call]

\* The time.Time the call-th time.Parse of a function returns for s.
TimeParse(s, call) ==
    LET secs == Num2(s, 12) * 3600 + Num2(s, 15) * 60 + Num2(s, 18) - ZoneOffset(s)
    IN  [ day |-> DayNumber(Num4(s, 1), Num2(s, 6), Num2(s, 9)) + (secs \div 86400),
          sec |-> secs % 86400,
          loc |-> ZoneLocation(s, call),
          minute |-> Num2(s, 15),       \* t.Minute(), in the time's own zone
          second |-> Num2(s, 18) ]      \* t.Second()

\* What == on two time.Time structs compares.
TimeStruct(t) == <<t.day, t.sec, t.loc>>

TimeCompare(v1, v2) ==
    IF v1.k # "string" THEN FALSE
    ELSE IF v2.k # "string" THEN FALSE
    ELSE LET b1 == ParsesRFC3339(v1.s)
             b2 == ParsesRFC3339(v2.s)
         IN  IF b1 /\ b2 THEN TimeStruct(TimeParse(v1.s, 1)) = TimeStruct(TimeParse(v2.s, 2))
             ELSE IF ~b1 /\ ~b2 THEN FALSE
             ELSE LET t == IF b2 THEN TimeParse(v2.s, 2) ELSE TimeParse(v1.s, 1)
                      s == IF b2 THEN v1.s ELSE v2.s
                  IN  Contains(s, ToString(t.second)) /\ Contains(s, ToString(t.minute))

(***************************************************************************)
(* json.Marshal, as the text it writes (strings of the model need no       *)
(* escaping; a json.Number is written as it stands; map keys are sorted).  *)
(***************************************************************************)
RECURSIVE JoinStrings(_)
JoinStrings(parts) ==
    IF parts = <<>> THEN ""
    ELSE IF Len(parts) = 1 THEN parts[1]
    ELSE parts[1] \o "," \o JoinStrings(Tail(parts))

Quote(s) == "\"" \o s \o "\""

RECURSIVE JsonMarshal(_)
JsonMarshal(v) ==
    CASE v.k = "nil" -> "null"
      [] v.k = "bool" -> (IF v.b THEN "true" ELSE "false")
      [] v.k \in {"int", "float"} -> ToString(v.n)
      [] v.k = "string" -> Quote(v.s)
      [] v.k = "jnum" -> v.s
      [] v.k = "map" ->
            IF v.nil THEN "null"
            ELSE LET ks == KeySeq(DOMAIN v.m)
                 IN  "{" \o JoinStrings([i \in 1..Len(ks) |->
                                            Quote(ks[i]) \o ":" \o JsonMarshal(v.m[ks[i]])]) \o "}"
      [] v.k = "slice" ->
            IF v.nil THEN "null"
            ELSE "[" \o JoinStrings([i \in 1..Len(v.a) |-> JsonMarshal(v.a[i])]) \o "]"

(***************************************************************************)
(* InterfaceEquals.                                                        *)
(***************************************************************************)
\* reflect Kind of a non-nil value is Map, Array or Slice (line 248).
IsContainerKindMapOnly(v) == v.k = "map"
IsContainerKind(v) == v.k \in {"map", "slice"}

\* reflect.Type.Comparable() of the dynamic type.
IsComparable(v) == v.k \in {"bool", "int", "float", "string", "jnum"}

\* reflect Kind is String: a string or a json.Number.
IsStringKind(v) == v.k \in {"string", "jnum"}

\* cKind is Int, Float32 or Float64 (line 296).
IsNumberKindOrString(v) == v.k \in {"int", "float", "string"}
IsNumberKind(v) == v.k \in {"int", "float"}

\* em[k]: the zero value, the nil interface, for a key the map does not hold.
MapIndex(e, x) == IF x \in DOMAIN e.m THEN e.m[x] ELSE Nil

\* Lines 270-276: criteria of kind Array or Slice.
SliceEqualsSameLen(c, e) == IsSlice(e) /\ Len(e.a) = Len(c.a)
SliceEquals(c, e) == IsSlice(e)

RECURSIVE InterfaceEquals(_, _)

\* Lines 277-295: criteria of kind Map.
MapEqualsCommonKeys(c, e) ==
    /\ IsMap(e)
    /\ \A x \in DOMAIN c.m \cap DOMAIN e.m : InterfaceEquals(c.m[x], e.m[x])
MapEquals(c, e) ==
    /\ IsMap(e)
    /\ \A x \in DOMAIN c.m : InterfaceEquals(c.m[x], MapIndex(e, x))

InterfaceEquals(c, e) ==
    IF c = Nil THEN (e = Nil \/ IsContainerKind(e))
    ELSE IF e = Nil THEN FALSE
    ELSE IF c.k = e.k /\ IsComparable(c) THEN (c = e \/ TimeCompare(c, e))
    ELSE IF IsSlice(c) THEN SliceEquals(c, e)
    ELSE IF IsMap(c) THEN MapEquals(c, e)
    ELSE IF IsStringKind(e) /\ IsNumberKind(c) THEN e.k = "jnum"
    ELSE JsonMarshal(c) = JsonMarshal(e)

(***************************************************************************)
(* One call of InterfaceEquals on a criteria tree and an existing tree.    *)
(***************************************************************************)
MatchLeaves == {Nil, IntV(1), StrV("x"), EmptyMap, EmptySlice}
MatchScalars ==
    { BoolV(TRUE), IntV(2), FloatV(1), StrV("1"), JNumV("1"), JNumV("2"), NilMap, NilSlice,
      StrV("2022-01-01T12:30:05Z"), StrV("2022-01-01T13:30:05+01:00"),
      StrV("2022-01-01T14:30:05+02:00"), StrV("12:30:05 pm") }
MatchValues == TreesUpTo(MatchLeaves, MaxMatchNodes) \cup MatchScalars

TimeEnvs == [localOffset : {0, 3600}, zoneCache : BOOLEAN]

MatchCall ==
    /\ mPc = "call"
    /\ mOut' = InterfaceEquals(mCrit, mExist)
    /\ mPc' = "done"
    /\ UNCHANGED <<mCrit, mExist, tEnv>>
    /\ UNCHANGED <<wVars, hVars>>

MatchNext == MatchCall

MatchInit ==
    /\ mCrit \in MatchValues
    /\ mExist \in MatchValues
    /\ tEnv \in (IF mCrit.k = "string" /\ mExist.k = "string"
                 THEN TimeEnvs ELSE {[localOffset |-> 0, zoneCache |-> FALSE]})
    /\ mOut = FALSE
    /\ mPc = "call"
    /\ WalkIdle
    /\ HeapIdle

SpecMatch == MatchInit /\ [][MatchNext]_vars

(***************************************************************************)
(* Properties of InterfaceEquals.                                          *)
(***************************************************************************)
MatchDone == mPc = "done"

\* The existing map without the keys the criteria map does not have.
OnlyCriteriaKeys(c, e) == MapV([x \in DOMAIN e.m \cap DOMAIN c.m |-> e.m[x]])

IsNonNullScalarOrSequence(v) == v.k \in {"bool", "int", "float", "string", "jnum", "slice"}

\* At some depth of two Objects nested alike, a criteria key holding a non-null
\* scalar or a Sequence is missing from the existing Object.
RECURSIVE MissesKey(_, _)
MissesKey(c, e) ==
    /\ IsMap(c) /\ IsMap(e)
    /\ \E x \in DOMAIN c.m :
         \/ x \notin DOMAIN e.m /\ IsNonNullScalarOrSequence(c.m[x])
         \/ x \in DOMAIN e.m /\ MissesKey(c.m[x], e.m[x])

\* C4: for an Object criteria the verdict is true iff existing is an Object and every
\* criteria key's value matches the existing value under that key, a missing key
\* counting as Null; keys only in existing do not change the verdict; and a criteria
\* key with a non-null scalar or Sequence value missing from existing, at any depth,
\* makes the verdict false.
C4_ObjectIsSubsetMatch ==
    (MatchDone /\ IsMap(mCrit)) =>
        /\ mOut = ( /\ mExist.k = "map"
                    /\ \A x \in DOMAIN mCrit.m :
                         InterfaceEquals(mCrit.m[x],
                                         IF x \in DOMAIN mExist.m THEN mExist.m[x] ELSE Nil) )
        /\ IsMap(mExist) => mOut = InterfaceEquals(mCrit, OnlyCriteriaKeys(mCrit, mExist))
        /\ MissesKey(mCrit, mExist) => ~mOut

\* C4 witness: an Object inside the criteria has a scalar under a key that the
\* Object at the same place of existing lacks, and the verdict is false.
C4_Witness ==
    /\ MatchDone /\ IsMap(mCrit) /\ IsMap(mExist) /\ ~mOut
    /\ \E x \in DOMAIN mCrit.m \cap DOMAIN mExist.m : MissesKey(mCrit.m[x], mExist.m[x])

C6_NullIsContainerWildcard ==
    MatchDone =>
        /\ mCrit = Nil => mOut = (mExist.k \in {"nil", "map", "slice"})
        /\ (mCrit # Nil /\ mExist = Nil) => ~mOut

\* C6 witness: a nil criteria matched a Sequence that has elements.
C6_Witness == MatchDone /\ mCrit = Nil /\ IsSlice(mExist) /\ mExist.a # <<>> /\ mOut

\* C7: a Sequence criteria matches exactly the Sequences, whatever the lengths and
\* the elements of the two.
C7_SequenceMatchesAnySequence ==
    (MatchDone /\ IsSlice(mCrit)) => mOut = (mExist.k = "slice")

\* C7 witness: two Sequences of different lengths and different first elements matched.
C7_Witness ==
    /\ MatchDone /\ IsSlice(mCrit) /\ IsSlice(mExist) /\ mOut
    /\ Len(mCrit.a) = 1 /\ Len(mExist.a) = 2 /\ mCrit.a[1] # mExist.a[1]

(***************************************************************************)
(* MapCopy, ArrayCopy, MapCombine.                                         *)
(*                                                                         *)
(* Whether two values share a map or a backing array is a matter of        *)
(* addresses, so these functions are modelled on a heap: heap[a] is the    *)
(* map or the array at address a, a map value is a reference to its map    *)
(* (0 for the nil map) and a slice value a reference to its backing array  *)
(* (0 for the nil slice).  Scalars are the records used above.  The        *)
(* functions return the new heap (h) with the value returned (v).          *)
(***************************************************************************)
MapCell(f) == [t |-> "map", m |-> f, a |-> <<>>]
ArrCell(s) == [t |-> "arr", m |-> <<>>, a |-> s]
MapRef(a) == [k |-> "map", ref |-> a]
SliceRef(a) == [k |-> "slice", ref |-> a]
IsRef(v) == v.k \in {"map", "slice"}

\* len(v) of a map or slice value.
LenOf(h, v) ==
    IF v.ref = 0 THEN 0
    ELSE IF v.k = "map" THEN Cardinality(DOMAIN h[v.ref].m) ELSE Len(h[v.ref].a)

\* The keys of a map value (none for the nil map).
KeysOf(h, v) == IF v.ref = 0 THEN {} ELSE DOMAIN h[v.ref].m

\* The function over ks that holds vs[i] under the i-th key of ks.
Keyed(ks, vs) == [x \in ks |-> vs[CHOOSE i \in 1..Len(KeySeq(ks)) : KeySeq(ks)[i] = x]]

RECURSIVE MapCopy(_, _), ArrayCopy(_, _), CopyEntries(_, _)

\* Lines 186-191 and 207-212: an entry that is a map is replaced by its MapCopy, one
\* that is a slice by its ArrayCopy, anything else is kept.
CopyValueMapsOnly(h, v) ==
    IF v.k = "map" THEN MapCopy(h, v) ELSE [h |-> h, v |-> v]
CopyValue(h, v) ==
    IF v.k = "map" THEN MapCopy(h, v)
    ELSE IF v.k = "slice" THEN ArrayCopy(h, v)
    ELSE [h |-> h, v |-> v]

\* The range loops of MapCopy and ArrayCopy over the entries vs.
CopyEntries(h, vs) ==
    IF vs = <<>> THEN [h |-> h, vs |-> <<>>]
    ELSE LET first == CopyValue(h, Head(vs))
             rest == CopyEntries(first.h, Tail(vs))
         IN  [h |-> rest.h, vs |-> <<first.v>> \o rest.vs]

MapCopyKeepEmpty(h, src) ==
    LET ks == KeySeq(KeysOf(h, src))
        r == CopyEntries(h, [i \in 1..Len(ks) |-> h[src.ref].m[ks[i]]])
    IN  [h |-> Append(r.h, MapCell(Keyed(KeysOf(h, src), r.vs))), v |-> MapRef(Len(r.h) + 1)]
MapCopy(h, src) ==
    IF LenOf(h, src) = 0 THEN [h |-> h, v |-> MapRef(0)]
    ELSE LET ks == KeySeq(KeysOf(h, src))
             r == CopyEntries(h, [i \in 1..Len(ks) |-> h[src.ref].m[ks[i]]])
         IN  [h |-> Append(r.h, MapCell(Keyed(KeysOf(h, src), r.vs))),
              v |-> MapRef(Len(r.h) + 1)]

ArrayCopy(h, src) ==
    IF LenOf(h, src) = 0 THEN [h |-> h, v |-> SliceRef(0)]
    ELSE LET r == CopyEntries(h, h[src.ref].a)
         IN  [h |-> Append(r.h, ArrCell(r.vs)), v |-> SliceRef(Len(r.h) + 1)]

\* Lines 131-133: dst[k] = v for every entry of src.
Overwritten(d, sm) == [x \in DOMAIN d \cup DOMAIN sm |-> IF x \in DOMAIN sm THEN sm[x] ELSE d[x]]
OnlyAdded(d, sm) == [x \in DOMAIN d \cup DOMAIN sm |-> IF x \in DOMAIN d THEN d[x] ELSE sm[x]]

MapCombineDstWins(h, dst, src) ==
    IF LenOf(h, dst) = 0 THEN MapCopy(h, src)
    ELSE IF LenOf(h, src) = 0 THEN [h |-> h, v |-> dst]
    ELSE [h |-> [h EXCEPT ![dst.ref].m = OnlyAdded(@, h[src.ref].m)], v |-> dst]
MapCombine(h, dst, src) ==
    IF LenOf(h, dst) = 0 THEN MapCopy(h, src)
    ELSE IF LenOf(h, src) = 0 THEN [h |-> h, v |-> dst]
    ELSE [h |-> [h EXCEPT ![dst.ref].m = Overwritten(@, h[src.ref].m)], v |-> dst]

(***************************************************************************)
(* Trees on the heap.                                                      *)
(***************************************************************************)
\* The tree t built on the heap h, every container in a map or array of its own.
RECURSIVE Alloc(_, _), AllocEntries(_, _)
Alloc(h, t) ==
    IF t.k = "map" THEN
        IF t.nil THEN [h |-> h, v |-> MapRef(0)]
        ELSE LET ks == KeySeq(DOMAIN t.m)
                 r == AllocEntries(h, [i \in 1..Len(ks) |-> t.m[ks[i]]])
             IN  [h |-> Append(r.h, MapCell(Keyed(DOMAIN t.m, r.vs))), v |-> MapRef(Len(r.h) + 1)]
    ELSE IF t.k = "slice" THEN
        IF t.nil THEN [h |-> h, v |-> SliceRef(0)]
        ELSE LET r == AllocEntries(h, t.a)
             IN  [h |-> Append(r.h, ArrCell(r.vs)), v |-> SliceRef(Len(r.h) + 1)]
    ELSE [h |-> h, v |-> t]

AllocEntries(h, ts) ==
    IF ts = <<>> THEN [h |-> h, vs |-> <<>>]
    ELSE LET first == Alloc(h, Head(ts))
             rest == AllocEntries(first.h, Tail(ts))
         IN  [h |-> rest.h, vs |-> <<first.v>> \o rest.vs]

\* The tree a value of the heap stands for.
RECURSIVE Reify(_, _)
Reify(h, v) ==
    IF v.k = "map" THEN
        IF v.ref = 0 THEN NilMap
        ELSE MapV([x \in DOMAIN h[v.ref].m |-> Reify(h, h[v.ref].m[x])])
    ELSE IF v.k = "slice" THEN
        IF v.ref = 0 THEN NilSlice
        ELSE SliceV([i \in 1..Len(h[v.ref].a) |-> Reify(h, h[v.ref].a[i])])
    ELSE v

\* The addresses of the maps and arrays reachable from a value.
RECURSIVE Reach(_, _)
Reach(h, v) ==
    IF ~IsRef(v) \/ v.ref = 0 THEN {}
    ELSE {v.ref} \cup
         (IF v.k = "map"
          THEN UNION { Reach(h, h[v.ref].m[x]) : x \in DOMAIN h[v.ref].m }
          ELSE UNION { Reach(h, h[v.ref].a[i]) : i \in 1..Len(h[v.ref].a) })

(***************************************************************************)
(* One call of MapCopy or MapCombine, and what the holders of the result   *)
(* and of src do to their trees afterwards.                                *)
(***************************************************************************)
HeapLeaves == {Nil, IntV(1), EmptyMap, EmptySlice}
MapTrees(n) == { t \in TreesUpTo(HeapLeaves, n) : IsMap(t) } \cup {NilMap}

CopyCall ==
    /\ hPc = "call" /\ hOp = "copy"
    /\ LET r == MapCopy(heap, hSrc)
       IN  /\ heap' = r.h
           /\ hRes' = r.v
           /\ hRes0' = Reify(r.h, r.v)
    /\ hPc' = "done"
    /\ UNCHANGED <<hOp, hDst, hSrc, hDst0, hSrc0, hVia>>
    /\ UNCHANGED <<wVars, mVars>>

CombineCall ==
    /\ hPc = "call" /\ hOp = "combine"
    /\ LET r == MapCombine(heap, hDst, hSrc)
       IN  /\ heap' = r.h
           /\ hRes' = r.v
           /\ hRes0' = Reify(r.h, r.v)
    /\ hPc' = "done"
    /\ UNCHANGED <<hOp, hDst, hSrc, hDst0, hSrc0, hVia>>
    /\ UNCHANGED <<wVars, mVars>>

\* The value whose holder writes: the result or src.
Held(side) == IF side = "res" THEN hRes ELSE hSrc

\* m[x] = 9 on a map reachable from the result, or from src.
WriteMapEntry ==
    /\ hPc = "done"
    /\ \E side \in {"res", "src"} :
         /\ hVia \in {"none", side}
         /\ hVia' = side
         /\ \E a \in Reach(heap, Held(side)), x \in Keys :
              /\ heap[a].t = "map"
              /\ heap' = [heap EXCEPT ![a].m =
                              [y \in DOMAIN @ \cup {x} |-> IF y = x THEN IntV(9) ELSE @[y]]]
              /\ heap' # heap
    /\ UNCHANGED <<hOp, hDst, hSrc, hRes, hPc, hDst0, hSrc0, hRes0>>
    /\ UNCHANGED <<wVars, mVars>>

\* a[i] = 9 on a slice reachable from the result, or from src.
WriteSliceElement ==
    /\ hPc = "done"
    /\ \E side \in {"res", "src"} :
         /\ hVia \in {"none", side}
         /\ hVia' = side
         /\ \E a \in Reach(heap, Held(side)) :
              /\ heap[a].t = "arr"
              /\ \E i \in 1..Len(heap[a].a) :
                   /\ heap' = [heap EXCEPT ![a].a[i] = IntV(9)]
                   /\ heap' # heap
    /\ UNCHANGED <<hOp, hDst, hSrc, hRes, hPc, hDst0, hSrc0, hRes0>>
    /\ UNCHANGED <<wVars, mVars>>

HeapNext ==
    \/ CopyCall
    \/ CombineCall
    \/ WriteMapEntry
    \/ WriteSliceElement

HeapInit ==
    /\ hOp \in {"copy", "combine"}
    /\ hSrc0 \in MapTrees(MaxSrcNodes)
    /\ hDst0 \in (IF hOp = "combine" THEN MapTrees(MaxDstNodes) ELSE {NilMap})
    /\ LET d == Alloc(<<>>, hDst0)
           sr == Alloc(d.h, hSrc0)
       IN  /\ heap = sr.h
           /\ hDst = d.v
           /\ hSrc = sr.v
    /\ hRes = Nil
    /\ hRes0 = Nil
    /\ hVia = "none"
    /\ hPc = "call"
    /\ WalkIdle
    /\ MatchIdle

SpecHeap == HeapInit /\ [][HeapNext]_vars

(***************************************************************************)
(* Properties of MapCopy and MapCombine.                                   *)
(***************************************************************************)
IsEmptyTree(t) == IF IsMap(t) THEN DOMAIN t.m = {} ELSE t.a = <<>>

\* Two trees agree on everything but on whether an empty container is nil.
RECURSIVE SameButNil(_, _)
SameButNil(t, u) ==
    IF IsMap(t) THEN
        /\ IsMap(u) /\ DOMAIN t.m = DOMAIN u.m
        /\ \A x \in DOMAIN t.m : SameButNil(t.m[x], u.m[x])
    ELSE IF IsSlice(t) THEN
        /\ IsSlice(u) /\ Len(t.a) = Len(u.a)
        /\ \A i \in 1..Len(t.a) : SameButNil(t.a[i], u.a[i])
    ELSE t = u

\* Every container of the tree is nil exactly when it is empty.
RECURSIVE NilIffEmpty(_)
NilIffEmpty(t) ==
    IF IsMap(t) THEN (t.nil <=> DOMAIN t.m = {}) /\ \A x \in DOMAIN t.m : NilIffEmpty(t.m[x])
    ELSE IF IsSlice(t) THEN (t.nil <=> t.a = <<>>) /\ \A i \in 1..Len(t.a) : NilIffEmpty(t.a[i])
    ELSE TRUE

CopyDone == hPc = "done" /\ hOp = "copy"
CombineDone == hPc = "done" /\ hOp = "combine"

\* C8 as claimed: the MapCopy of a non-empty map is equal to it at every depth, the
\* nested empty containers included (they stay empty maps and empty slices), and
\* only an empty map at the top yields the nil map.
C8_CopyEqualsSourceEverywhere ==
    CopyDone =>
        IF IsEmptyTree(hSrc0) THEN hRes0 = NilMap ELSE hRes0 = hSrc0

\* C8 as amended: the MapCopy of a non-empty map has, at every depth, the keys, the
\* scalars, the container kinds and the slice lengths and orders of the source,
\* except that every empty container, at any depth, is copied as the nil container
\* of its kind; an empty map at the top yields the nil map.
C8_CopyEqualsSourceButEmptyIsNil ==
    CopyDone =>
        /\ SameButNil(hRes0, hSrc0)
        /\ NilIffEmpty(hRes0)

\* C8 witness: the source held a slice whose one element is an empty map, and the
\* copy holds a slice whose one element is the nil map.
C8_Witness ==
    /\ CopyDone
    /\ \E x \in DOMAIN hSrc0.m :
         /\ hSrc0.m[x] = SliceV(<<EmptyMap>>)
         /\ hRes0.m[x] = SliceV(<<NilMap>>)

\* The calls whose result is a copy: MapCopy, and MapCombine with an empty dst.
ReturnsCopy == hPc = "done" /\ (hOp = "copy" \/ IsEmptyTree(hDst0))

\* C9: the result of MapCopy, and of MapCombine when dst is empty, shares no map and
\* no backing array with src at any depth: whatever the holder of the result writes
\* into it leaves the tree of src as it was, and whatever the holder of src writes
\* leaves the tree of the result as it was.
C9_CopySharesNothing ==
    ReturnsCopy =>
        /\ Reach(heap, hRes) \cap Reach(heap, hSrc) = {}
        /\ hVia # "src" => Reify(heap, hSrc) = hSrc0
        /\ hVia # "res" => Reify(heap, hRes) = hRes0

\* C9 witness: MapCombine with an empty dst returned a tree holding a slice, and its
\* holder has since written into that slice.
C9_Witness ==
    /\ ReturnsCopy /\ hOp = "combine" /\ hVia = "res"
    /\ \E x \in DOMAIN hRes0.m :
         /\ IsSlice(hRes0.m[x])
         /\ Reify(heap, hRes).m[x] # hRes0.m[x]

\* What C10 says of the map passed as dst, right after the call: it is the value
\* returned, it holds under every key of src the value src holds, and it kept
\* every other entry it had.
DstHoldsSrc ==
    /\ hRes = hDst
    /\ KeysOf(heap, hDst) = DOMAIN hDst0.m \cup DOMAIN hSrc0.m
    /\ \A x \in DOMAIN hSrc0.m : heap[hDst.ref].m[x] = heap[hSrc.ref].m[x]
    /\ \A x \in DOMAIN hDst0.m \ DOMAIN hSrc0.m : Reify(heap, heap[hDst.ref].m[x]) = hDst0.m[x]

\* C10 as claimed: for every dst and src, MapCombine returns the very map passed as
\* dst, which then holds src[k] under every key k of src and every other entry it had.
C10_CombineUpdatesDstInPlace ==
    (CombineDone /\ hVia = "none") => DstHoldsSrc

\* C10 as amended: that holds for every non-empty dst; for an empty dst MapCombine
\* leaves dst as it was and returns a copy of src (the nil map when src is empty too).
C10_CombineUpdatesNonEmptyDstInPlace ==
    (CombineDone /\ hVia = "none") =>
        IF ~IsEmptyTree(hDst0) THEN DstHoldsSrc
        ELSE /\ Reify(heap, hDst) = hDst0
             /\ hRes.ref \notin Reach(heap, hDst)
             /\ SameButNil(hRes0, hSrc0)

\* C10 witness: dst and src were non-empty with a key in common and a key only in
\* src, and dst now holds the values of src under both.
C10_Witness ==
    /\ CombineDone /\ hVia = "none" /\ hRes = hDst
    /\ DOMAIN hDst0.m \cap DOMAIN hSrc0.m # {}
    /\ DOMAIN hSrc0.m \ DOMAIN hDst0.m # {}
    /\ \E x \in DOMAIN hDst0.m \cap DOMAIN hSrc0.m : hDst0.m[x] # hSrc0.m[x]
    /\ \A x \in DOMAIN hSrc0.m : Reify(heap, hDst).m[x] = hSrc0.m[x]

(***************************************************************************)
(* MapReplace.                                                             *)
(***************************************************************************)
\* Lines 168-172: dst[k] = src[k] for every key k of dst that src holds.
ReplacedOrAdded(d, sm) ==
    [x \in DOMAIN d \cup DOMAIN sm |-> IF x \in DOMAIN sm THEN sm[x] ELSE d[x]]
Replaced(d, sm) == [x \in DOMAIN d |-> IF x \in DOMAIN sm THEN sm[x] ELSE d[x]]

MapReplace(h, dst, src) ==
    IF LenOf(h, src) = 0 THEN [h |-> h, v |-> dst]
    ELSE IF dst.ref = 0 THEN [h |-> h, v |-> dst]      \* the range over a nil map is empty
    ELSE [h |-> [h EXCEPT ![dst.ref].m = Replaced(@, h[src.ref].m)], v |-> dst]

\* The trees passed to MapReplace: src holds other scalars than dst.
ReplaceSrcLeaves == {Nil, IntV(9), EmptyMap, EmptySlice}
ReplaceDstTrees == MapTrees(MaxReplaceNodes)
ReplaceSrcTrees ==
    { t \in TreesUpTo(ReplaceSrcLeaves, MaxReplaceNodes) : IsMap(t) } \cup {NilMap}

ReplaceCall ==
    /\ hPc = "call" /\ hOp = "replace"
    /\ LET r == MapReplace(heap, hDst, hSrc)
       IN  /\ heap' = r.h
           /\ hRes' = r.v
           /\ hRes0' = Reify(r.h, r.v)
    /\ hPc' = "done"
    /\ UNCHANGED <<hOp, hDst, hSrc, hDst0, hSrc0, hVia>>
    /\ UNCHANGED <<wVars, mVars>>

ReplaceNext == ReplaceCall

ReplaceInit ==
    /\ hOp = "replace"
    /\ hDst0 \in ReplaceDstTrees
    /\ hSrc0 \in ReplaceSrcTrees
    /\ LET d == Alloc(<<>>, hDst0)
           sr == Alloc(d.h, hSrc0)
       IN  /\ heap = sr.h
           /\ hDst = d.v
           /\ hSrc = sr.v
    /\ hRes = Nil
    /\ hRes0 = Nil
    /\ hVia = "none"
    /\ hPc = "call"
    /\ WalkIdle
    /\ MatchIdle

SpecReplace == ReplaceInit /\ [][ReplaceNext]_vars

(***************************************************************************)
(* Properties of MapReplace.                                               *)
(***************************************************************************)
ReplaceDone == hPc = "done" /\ hOp = "replace"

\* C11: MapReplace returns dst with the key set it had (no key added, none removed),
\* holding src[k] under exactly the keys k that dst and src both have and its own
\* value under every other key; with an empty src, dst is returned as it was.
C11_ReplaceKeepsKeySet ==
    ReplaceDone =>
        /\ hRes = hDst
        /\ KeysOf(heap, hDst) = DOMAIN hDst0.m
        /\ \A x \in DOMAIN hDst0.m \cap DOMAIN hSrc0.m :
             heap[hDst.ref].m[x] = heap[hSrc.ref].m[x]
        /\ \A x \in DOMAIN hDst0.m \ DOMAIN hSrc0.m :
             Reify(heap, heap[hDst.ref].m[x]) = hDst0.m[x]
        /\ IsEmptyTree(hSrc0) => Reify(heap, hDst) = hDst0
        /\ Reify(heap, hSrc) = hSrc0

\* C11 witness: src had a key that dst lacks and a key that dst has with another
\* value; dst now holds the value of src under the common key and still lacks the
\* other one.
C11_Witness ==
    /\ ReplaceDone
    /\ DOMAIN hSrc0.m \ DOMAIN hDst0.m # {}
    /\ DOMAIN hRes0.m = DOMAIN hDst0.m
    /\ \E x \in DOMAIN hDst0.m \cap DOMAIN hSrc0.m :
         /\ hDst0.m[x] # hSrc0.m[x]
         /\ hRes0.m[x] = hSrc0.m[x]

(***************************************************************************)
(* One call of TimeCompare on two strings.                                 *)
(***************************************************************************)
TimeStrings ==
    { "2022-01-01T12:30:05Z", "2022-01-01T12:30:05+00:00", "2022-01-01T13:30:05+01:00",
      "2022-01-01T14:30:05+02:00", "2022-01-01T18:00:05+05:30", "2021-12-31T23:30:05-13:00",
      "2022-01-01T12:31:05Z", "2022-01-01T12:30:06+01:00", "12:30:05 pm", "x" }

TimeCall ==
    /\ mPc = "timecall"
    /\ mOut' = TimeCompare(mCrit, mExist)
    /\ mPc' = "done"
    /\ UNCHANGED <<mCrit, mExist, tEnv>>
    /\ UNCHANGED <<wVars, hVars>>

TimeNext == TimeCall

TimeInit ==
    /\ mCrit \in { StrV(s) : s \in TimeStrings }
    /\ mExist \in { StrV(s) : s \in TimeStrings }
    /\ tEnv \in TimeEnvs
    /\ mOut = FALSE
    /\ mPc = "timecall"
    /\ WalkIdle
    /\ HeapIdle

SpecTime == TimeInit /\ [][TimeNext]_vars

(***************************************************************************)
(* Properties of TimeCompare.                                              *)
(***************************************************************************)
\* The instant a parsed string names: the UTC day and the second of that day.
InstantOf(s) == <<TimeParse(s, 0).day, TimeParse(s, 0).sec>>

\* C12: for two strings that both parse as RFC3339, TimeCompare is true iff the two
\* parsed instants are identical, also when the strings write the same instant with
\* different zone offsets.
C12_TimeCompareIsInstantEquality ==
    (MatchDone /\ ParsesRFC3339(mCrit.s) /\ ParsesRFC3339(mExist.s)) =>
        mOut = (InstantOf(mCrit.s) = InstantOf(mExist.s))

====
